---- MODULE Spec2Model ----
(***************************************************************************)
(* Model of the Ansible module library/marathon.py: the MarathonAppManager *)
(* handlers (present, absent, updated, test, get), the polling loop        *)
(* _sync_app_status, and the comparison of two application documents       *)
(* (_compare_json_deployments with _ordered and                            *)
(* _clean_json_objects_for_update).                                        *)
(*                                                                         *)
(* JSON values are tagged pairs <<tag, payload>>:                          *)
(*   <<"null", 0>>  <<"int", n>>  <<"str", s>>  <<"list", <<v1, ...>>>>     *)
(*   <<"dict", << <<k1, v1>>, ... >>>>   (entries in document order)       *)
(* and <<"tuple", <<v1, ...>>>> for the (key, value) tuples _ordered makes. *)
(***************************************************************************)
EXTENDS Integers, Sequences, FiniteSets, TLC

VARIABLES
    live,             \* the scheduler's view of the AppID
    state,            \* module.params['state'] of the current invocation
    json_definition,  \* the submitted application document
    pc,               \* position of the invocation in the handler
    app_info,         \* the handler's local app_info
    attempts,         \* _sync_app_status: remaining attempts
    budget,           \* _sync_app_status: the attempts argument
    result,           \* what the invocation ended with
    calls,            \* write calls issued by the current invocation
    pollReads,        \* reads made by the loop of _sync_app_status
    satisfiedAt,      \* first poll read that met the awaited condition, 0 if none
    firstRead,        \* what the first read of the invocation returned
    external,         \* changes made by others since the invocation began
    prev,             \* the first read of the previous invocation, when this one repeats it
    d1, d2,           \* arguments of _compare_json_deployments
    verdict,          \* its result
    lastCall          \* the latest remote call of the invocation and how it went

vars == <<live, state, json_definition, pc, app_info, attempts, budget, result,
          calls, pollReads, satisfiedAt, firstRead, external, prev, d1, d2, verdict,
          lastCall>>

-----------------------------------------------------------------------------
(* Bounds *)

\* largest attempts argument of _sync_app_status explored (the callers use the default)
MaxAttempts == 2

\* most changes made by others during one invocation
MaxExternal == 1

-----------------------------------------------------------------------------
(* JSON values *)

NoneV == <<"null", 0>>
IntV(n) == <<"int", n>>
StrV(s) == <<"str", s>>
ListV(s) == <<"list", s>>
DictV(s) == <<"dict", s>>

\* every string of the model, in the order Python compares strings
StrOrder ==
    <<"", "a", "b", "container", "containerPort", "docker", "id",
      "instances", "portMappings", "servicePort", "web">>

StrRank(s) == CHOOSE i \in 1..Len(StrOrder) : StrOrder[i] = s

\* Python 2 orders values of different types: None, then numbers, then by type name
TypeRank(t) ==
    CASE t = "null" -> 0
      [] t = "int" -> 1
      [] t = "dict" -> 2
      [] t = "list" -> 3
      [] t = "tuple" -> 4
      [] t = "str" -> 5

Sign(n) == IF n < 0 THEN -1 ELSE IF n > 0 THEN 1 ELSE 0

RECURSIVE PyCmp(_, _)
RECURSIVE SeqCmp(_, _)

\* cmp(a, b) of Python 2 on the values _ordered returns
PyCmp(a, b) ==
    IF TypeRank(a[1]) # TypeRank(b[1])
    THEN Sign(TypeRank(a[1]) - TypeRank(b[1]))
    ELSE CASE a[1] = "null" -> 0
           [] a[1] = "int" -> Sign(a[2] - b[2])
           [] a[1] = "str" -> Sign(StrRank(a[2]) - StrRank(b[2]))
           [] OTHER -> SeqCmp(a[2], b[2])

SeqCmp(s, t) ==
    IF Len(s) = 0 \/ Len(t) = 0
    THEN Sign(Len(s) - Len(t))
    ELSE LET c == PyCmp(Head(s), Head(t))
         IN IF c # 0 THEN c ELSE SeqCmp(Tail(s), Tail(t))

RECURSIVE Insert(_, _)
Insert(x, t) ==
    IF Len(t) = 0 THEN <<x>>
    ELSE IF PyCmp(x, Head(t)) < 0 THEN <<x>> \o t
    ELSE <<Head(t)>> \o Insert(x, Tail(t))

RECURSIVE sorted(_)
\* sorted(): stable, ascending
sorted(s) ==
    IF Len(s) <= 1 THEN s
    ELSE CHOOSE r \in {Insert(x, t) : x \in {s[Len(s)]},
                                      t \in {sorted(SubSeq(s, 1, Len(s) - 1))}} : TRUE

\* bool(v)
Truthy(v) ==
    CASE v[1] = "null" -> FALSE
      [] v[1] = "int" -> v[2] # 0
      [] v[1] = "str" -> v[2] # ""
      [] OTHER -> Len(v[2]) > 0

HasKey(d, k) == \E i \in 1..Len(d[2]) : d[2][i][1] = k

\* d[k]
Item(d, k) == d[2][CHOOSE i \in 1..Len(d[2]) : d[2][i][1] = k][2]

\* d.get(k)
Get(d, k) == IF HasKey(d, k) THEN Item(d, k) ELSE NoneV

\* d with d[k] = v, the key keeping its place
Put(d, k, v) ==
    DictV([i \in 1..Len(d[2]) |-> IF d[2][i][1] = k THEN <<k, v>> ELSE d[2][i]])

\* del d[k]
Del(d, k) == DictV(SelectSeq(d[2], LAMBDA e : e[1] # k))

-----------------------------------------------------------------------------
(* The comparison of two application documents *)

\* marathon.MarathonApp.UPDATE_OK_ATTRIBUTES, the attribute names that occur in the
\* documents of this model ("id" is not one of them)
UPDATE_OK_ATTRIBUTES == {"args", "cmd", "container", "env", "instances"}

\* MarathonAppManager.UPDATE_IGNORE['servicePort']
UPDATE_IGNORE == <<"container", "docker", "portMappings">>

RECURSIVE ordered_lists_kept(_)
\* ordered, were the elements of a list left in the order of the document
ordered_lists_kept(obj) ==
    IF obj[1] = "dict"
    THEN ListV(sorted([i \in 1..Len(obj[2]) |->
                 <<"tuple", <<StrV(obj[2][i][1]), ordered_lists_kept(obj[2][i][2])>> >>]))
    ELSE IF obj[1] = "list"
    THEN ListV([i \in 1..Len(obj[2]) |-> ordered_lists_kept(obj[2][i])])
    ELSE obj

RECURSIVE ordered(_)
ordered(obj) ==
    IF obj[1] = "dict"
    THEN ListV(sorted([i \in 1..Len(obj[2]) |->
                 <<"tuple", <<StrV(obj[2][i][1]), ordered(obj[2][i][2])>> >>]))
    ELSE IF obj[1] = "list"
    THEN ListV(sorted([i \in 1..Len(obj[2]) |-> ordered(obj[2][i])]))
    ELSE obj

RECURSIVE get_nested_dict(_, _)
\* reduce(lambda d, key: d.get(key) if d else None, keys, dictionary)
get_nested_dict(dictionary, keys) ==
    IF Len(keys) = 0 THEN dictionary
    ELSE get_nested_dict(IF Truthy(dictionary) THEN Get(dictionary, Head(keys)) ELSE NoneV,
                         Tail(keys))

\* the loop body over one port mapping: `if match.get(key): del match[key]`
clean_match(match) ==
    IF Truthy(Get(match, "servicePort")) THEN Del(match, "servicePort") ELSE match

\* the document after the in-place deletions
clean_json_objects_for_update(dictionary) ==
    LET nested == get_nested_dict(dictionary, UPDATE_IGNORE)
    IN IF Truthy(nested)
       THEN LET container == Item(dictionary, "container")
                docker == Item(container, "docker")
                cleaned == ListV([i \in 1..Len(nested[2]) |-> clean_match(nested[2][i])])
            IN Put(dictionary, "container",
                   Put(container, "docker", Put(docker, "portMappings", cleaned)))
       ELSE dictionary

\* item_differs, were an attribute that only one document has a difference
item_differs_strict(c1, c2, item) ==
    \/ Truthy(Get(c1, item)) # Truthy(Get(c2, item))
    \/ /\ Truthy(Get(c1, item))
       /\ Truthy(Get(c2, item))
       /\ PyCmp(ordered(Item(c1, item)), ordered(Item(c2, item))) # 0

\* the test of the loop over UPDATE_OK_ATTRIBUTES: "found a difference"
item_differs(c1, c2, item) ==
    /\ Truthy(Get(c1, item))
    /\ Truthy(Get(c2, item))
    /\ \E o1 \in {ordered(Item(c1, item))}, o2 \in {ordered(Item(c2, item))} :
          PyCmp(o1, o2) # 0

compare_json_deployments(a, b) ==
    \A c1 \in {clean_json_objects_for_update(a)},
       c2 \in {clean_json_objects_for_update(b)} :
          ~ \E item \in UPDATE_OK_ATTRIBUTES : item_differs(c1, c2, item)

-----------------------------------------------------------------------------
(* Application documents of the model *)

\* one entry of container.docker.portMappings; sp < 0: no servicePort key;
\* swapped: the servicePort key comes first
PortMapping(cp, sp, swapped) ==
    IF sp < 0 THEN DictV(<< <<"containerPort", IntV(cp)>> >>)
    ELSE IF swapped
    THEN DictV(<< <<"servicePort", IntV(sp)>>, <<"containerPort", IntV(cp)>> >>)
    ELSE DictV(<< <<"containerPort", IntV(cp)>>, <<"servicePort", IntV(sp)>> >>)

PortMappingLists ==
    {<<>>}
    \cup {<<PortMapping(80, sp, sw)>> : sp \in {-1, 0, 10000, 10001}, sw \in BOOLEAN}
    \cup {<<PortMapping(80, sp, FALSE), PortMapping(443, -1, FALSE)>> : sp \in {-1, 10000}}
    \cup {<<PortMapping(443, -1, FALSE), PortMapping(80, sp, FALSE)>> : sp \in {-1, 10000}}

Container(mappings) ==
    DictV(<< <<"docker", DictV(<< <<"portMappings", ListV(mappings)>> >>)>> >>)

\* NoneV stands for "no container key"
Containers == {NoneV, DictV(<<>>)} \cup {Container(l) : l \in PortMappingLists}

\* {"id": "web"} with instances (inst < 0: none) and container, in either key order
AppDoc(inst, cont, swapped) ==
    LET i == IF inst < 0 THEN <<>> ELSE << <<"instances", IntV(inst)>> >>
        c == IF cont = NoneV THEN <<>> ELSE << <<"container", cont>> >>
    IN DictV(<< <<"id", StrV("web")>> >> \o (IF swapped THEN c \o i ELSE i \o c))

AttrDoc(key, value) == DictV(<< <<"id", StrV("web")>>, <<key, value>> >>)

EnvAB == DictV(<< <<"a", StrV("a")>>, <<"b", StrV("b")>> >>)
EnvBA == DictV(<< <<"b", StrV("b")>>, <<"a", StrV("a")>> >>)

Docs ==
    {AppDoc(i, c, sw) : i \in {-1, 0, 1, 2}, c \in Containers, sw \in BOOLEAN}
    \cup {AttrDoc("cmd", StrV(x)) : x \in {"", "a", "b"}}
    \cup {AttrDoc("args", ListV(l)) : l \in {<<>>, <<StrV("a"), StrV("b")>>,
                                             <<StrV("b"), StrV("a")>>}}
    \cup {AttrDoc("env", e) : e \in {DictV(<<>>), EnvAB, EnvBA}}
    \cup {Put(AppDoc(i, NoneV, FALSE), "id", StrV("a")) : i \in {-1, 1}}

\* the documents submitted to the handlers
SpecDocs ==
    {AppDoc(1, NoneV, FALSE), AppDoc(2, NoneV, FALSE),
     AppDoc(1, Container(<<PortMapping(80, -1, FALSE)>>), FALSE),
     AppDoc(1, Container(<<PortMapping(80, 0, FALSE)>>), FALSE)}

-----------------------------------------------------------------------------
(* The scheduler *)

Absent == [exists |-> FALSE, doc |-> NoneV, tasks_running |-> 0, deleting |-> FALSE]

\* the port the scheduler assigns to a mapping that asks for none (or for 0)
AssignPort(match) ==
    IF Truthy(Get(match, "servicePort")) THEN match
    ELSE DictV(Del(match, "servicePort")[2] \o << <<"servicePort", IntV(10000)>> >>)

\* the live document the scheduler keeps for a submitted one
Inject(doc) ==
    LET nested == get_nested_dict(doc, UPDATE_IGNORE)
    IN IF Truthy(nested)
       THEN LET container == Item(doc, "container")
                docker == Item(container, "docker")
                assigned == ListV([i \in 1..Len(nested[2]) |-> AssignPort(nested[2][i])])
            IN Put(doc, "container",
                   Put(container, "docker", Put(docker, "portMappings", assigned)))
       ELSE doc

Created(doc) == [exists |-> TRUE, doc |-> Inject(doc), tasks_running |-> 0, deleting |-> FALSE]

-----------------------------------------------------------------------------
(* The invocation: main() and the handlers of MarathonAppManager.  One action *)
(* is one remote call with the local code that follows it.                    *)

States == {"present", "absent", "updated", "test", "get"}

NoResult == [kind |-> "none", changed |-> FALSE, diff |-> FALSE]
NoCalls == [create_app |-> 0, update_app |-> 0, delete_app |-> 0]

Writes == calls.create_app + calls.update_app + calls.delete_app

\* self._get_app_info(): the live application, or None (exists = FALSE)
get_app_info == live

\* a call of client.get_app by _get_app_info()
Read == lastCall' = IF live.exists THEN "read_live" ELSE "read_absent"

\* the first _get_app_info() of a handler
FirstRead == firstRead' = IF live.exists THEN "live" ELSE "absent"

\* the first read of the invocation that just ended, if the invocation (goal, spec)
\* repeats it, it returned an Outcome and nobody else changed the application meanwhile
Repeats(goal, spec) ==
    IF result.kind = "exit_json" /\ external = 0 /\ goal = state /\ spec = json_definition
    THEN firstRead ELSE "none"

\* module.exit_json(changed=..., ...)
exit_json(changed, diff) ==
    /\ pc' = "idle"
    /\ result' = [kind |-> "exit_json", changed |-> changed, diff |-> diff]

\* module.fail_json(...), or an exception nothing catches
Fatal(kind) ==
    /\ pc' = "idle"
    /\ result' = [kind |-> kind, changed |-> FALSE, diff |-> FALSE]

\* the handler main() dispatches to
Entry(goal) ==
    CASE goal = "present" -> "create_if_not_exists"
      [] goal = "absent" -> "destroy_app"
      [] goal = "updated" -> "update_app"
      [] goal = "test" -> "diff_app"
      [] goal = "get" -> "get_app"

main(goal, spec) ==
    /\ pc = "idle"
    /\ state' = goal
    /\ json_definition' = spec
    /\ pc' = Entry(goal)
    /\ budget' = 0
    /\ prev' = Repeats(goal, spec)
    /\ app_info' = Absent
    /\ attempts' = 0
    /\ result' = NoResult
    /\ calls' = NoCalls
    /\ pollReads' = 0
    /\ satisfiedAt' = 0
    /\ firstRead' = "none"
    /\ external' = 0
    /\ d1' = NoneV /\ d2' = NoneV /\ verdict' = "none"
    /\ lastCall' = "none"
    /\ UNCHANGED live

\* the changed value create_if_not_exists passes on from create_app
create_changed == TRUE

\* create_if_not_exists, were the application created whatever the read returned
create_if_not_exists_unchecked ==
    /\ pc = "create_if_not_exists"
    /\ FirstRead
    /\ Read
    /\ UNCHANGED calls
    /\ app_info' = get_app_info
    /\ pc' = "create_app" /\ UNCHANGED result
    /\ UNCHANGED <<live, state, json_definition, attempts, budget, pollReads,
                   satisfiedAt, external, prev, d1, d2, verdict>>

\* create_if_not_exists, were an application that differs from the submitted
\* document brought up to date
create_if_not_exists_updating ==
    /\ pc = "create_if_not_exists"
    /\ FirstRead
    /\ Read
    /\ UNCHANGED calls
    /\ app_info' = get_app_info
    /\ IF ~get_app_info.exists
       THEN pc' = "create_app" /\ UNCHANGED result
       ELSE IF compare_json_deployments(get_app_info.doc, json_definition)
       THEN exit_json(FALSE, FALSE)
       ELSE pc' = "update_app_call" /\ UNCHANGED result
    /\ UNCHANGED <<live, state, json_definition, attempts, budget, pollReads,
                   satisfiedAt, external, prev, d1, d2, verdict>>

create_if_not_exists ==
    /\ pc = "create_if_not_exists"
    /\ FirstRead
    /\ Read
    /\ UNCHANGED calls
    /\ app_info' = get_app_info
    /\ IF ~get_app_info.exists
       THEN pc' = "create_app" /\ UNCHANGED result
       ELSE exit_json(FALSE, FALSE)
    /\ UNCHANGED <<live, state, json_definition, attempts, budget, pollReads,
                   satisfiedAt, external, prev, d1, d2, verdict>>

\* create_app, were the create issued whatever _fail_if_running read
create_app_unguarded ==
    /\ pc = "create_app"
    /\ Read
    /\ UNCHANGED calls
    /\ pc' = "create_app_call" /\ UNCHANGED result
    /\ UNCHANGED <<live, state, json_definition, app_info, attempts, budget, pollReads,
                   satisfiedAt, firstRead, external, prev, d1, d2, verdict>>

\* create_app: _fail_if_running
create_app ==
    /\ pc = "create_app"
    /\ Read
    /\ UNCHANGED calls
    /\ IF get_app_info.exists
       THEN Fatal("fail_json")
       ELSE pc' = "create_app_call" /\ UNCHANGED result
    /\ UNCHANGED <<live, state, json_definition, app_info, attempts, budget, pollReads,
                   satisfiedAt, firstRead, external, prev, d1, d2, verdict>>

\* entering _sync_app_status with attempts=n
sync_app_status(n) == attempts' = n /\ budget' = n

\* create_app, were a rejected create issued once more
create_app_call_retrying ==
    /\ pc = "create_app_call"
    /\ calls' = [calls EXCEPT !.create_app = @ + 1]
    /\ \/ /\ ~live.exists
          /\ live' = Created(json_definition)
          /\ pc' = "sync_deployed"
          /\ \E n \in 1..MaxAttempts : sync_app_status(n)
          /\ lastCall' = "create_ok"
          /\ UNCHANGED result
       \/ /\ IF calls.create_app = 0 THEN UNCHANGED <<pc, result>> ELSE Fatal("fail_json")
          /\ lastCall' = "create_rejected"
          /\ UNCHANGED <<live, attempts, budget>>
    /\ UNCHANGED <<state, json_definition, app_info, pollReads,
                   satisfiedAt, firstRead, external, prev, d1, d2, verdict>>

\* create_app: client.create_app, accepted or rejected by the scheduler
create_app_call ==
    /\ pc = "create_app_call"
    /\ calls' = [calls EXCEPT !.create_app = @ + 1]
    /\ \/ /\ ~live.exists
          /\ live' = Created(json_definition)
          /\ pc' = "sync_deployed"
          /\ \E n \in 1..MaxAttempts : sync_app_status(n)
          /\ lastCall' = "create_ok"
          /\ UNCHANGED result
       \/ /\ Fatal("fail_json")
          /\ lastCall' = "create_rejected"
          /\ UNCHANGED <<live, attempts, budget>>
    /\ UNCHANGED <<state, json_definition, app_info, pollReads,
                   satisfiedAt, firstRead, external, prev, d1, d2, verdict>>

\* sync_again, were the attempts left not looked at
sync_again_unbounded(unmet, left) == unmet

\* the loop test of _sync_app_status: check again after a sleep
sync_again(unmet, left) == unmet /\ left > 0

\* sync_timeout, were the exhausted attempts not looked at
sync_timeout_never(left) == FALSE

\* the test after the loop of _sync_app_status
sync_timeout(left) == left = 0

\* one evaluation of the loop test, and what follows the loop when it ends
sync_step(unmet, next) ==
    /\ pollReads' = pollReads + 1
    /\ Read
    /\ UNCHANGED calls
    /\ satisfiedAt' = IF ~unmet /\ satisfiedAt = 0 THEN pollReads + 1 ELSE satisfiedAt
    /\ IF sync_again(unmet, attempts)
       THEN attempts' = attempts - 1 /\ UNCHANGED <<pc, result>>
       ELSE /\ UNCHANGED attempts
            /\ IF sync_timeout(attempts) THEN Fatal("timeout") ELSE next

\* _sync_app_status(APP_DEPLOYED)
sync_deployed ==
    /\ pc = "sync_deployed"
    /\ IF ~get_app_info.exists
       THEN /\ pollReads' = pollReads + 1
            /\ Fatal("AttributeError")
            /\ Read
            /\ UNCHANGED <<calls, attempts, satisfiedAt>>
       ELSE sync_step(get_app_info.tasks_running = 0,
                      pc' = "create_app_return" /\ UNCHANGED result)
    /\ UNCHANGED <<live, state, json_definition, app_info, budget,
                   firstRead, external, prev, d1, d2, verdict>>

\* create_app: `return self._get_app_info().to_json(), True`, and the caller's exit_json
create_app_return ==
    /\ pc = "create_app_return"
    /\ Read
    /\ UNCHANGED calls
    /\ IF ~get_app_info.exists
       THEN Fatal("AttributeError")
       ELSE exit_json(create_changed, FALSE)
    /\ UNCHANGED <<live, state, json_definition, app_info, attempts, budget, pollReads,
                   satisfiedAt, firstRead, external, prev, d1, d2, verdict>>

\* destroy_app, were the delete issued whatever the read returned
destroy_app_unchecked ==
    /\ pc = "destroy_app"
    /\ FirstRead
    /\ Read
    /\ UNCHANGED calls
    /\ app_info' = get_app_info
    /\ pc' = "destroy_app_call" /\ UNCHANGED result
    /\ UNCHANGED <<live, state, json_definition, attempts, budget, pollReads,
                   satisfiedAt, external, prev, d1, d2, verdict>>

destroy_app ==
    /\ pc = "destroy_app"
    /\ FirstRead
    /\ Read
    /\ UNCHANGED calls
    /\ app_info' = get_app_info
    /\ IF ~get_app_info.exists
       THEN exit_json(FALSE, FALSE)
       ELSE pc' = "destroy_app_call" /\ UNCHANGED result
    /\ UNCHANGED <<live, state, json_definition, attempts, budget, pollReads,
                   satisfiedAt, external, prev, d1, d2, verdict>>

\* destroy_app: client.delete_app; its errors are not caught
destroy_app_call ==
    /\ pc = "destroy_app_call"
    /\ calls' = [calls EXCEPT !.delete_app = @ + 1]
    /\ \/ /\ live.exists
          /\ live' = [live EXCEPT !.deleting = TRUE]
          /\ pc' = "sync_not_present"
          /\ \E n \in 1..MaxAttempts : sync_app_status(n)
          /\ lastCall' = "delete_ok"
          /\ UNCHANGED result
       \/ /\ Fatal("MarathonError")
          /\ lastCall' = "delete_rejected"
          /\ UNCHANGED <<live, attempts, budget>>
    /\ UNCHANGED <<state, json_definition, app_info, pollReads,
                   satisfiedAt, firstRead, external, prev, d1, d2, verdict>>

\* _sync_app_status(APP_NOT_PRESENT), and the exit_json of destroy_app
sync_not_present ==
    /\ pc = "sync_not_present"
    /\ sync_step(get_app_info.exists, exit_json(TRUE, FALSE))
    /\ UNCHANGED <<live, state, json_definition, app_info, budget,
                   firstRead, external, prev, d1, d2, verdict>>

update_app ==
    /\ pc = "update_app"
    /\ FirstRead
    /\ Read
    /\ UNCHANGED calls
    /\ app_info' = get_app_info
    /\ pc' = IF get_app_info.exists THEN "update_app_compare" ELSE "create_app"
    /\ UNCHANGED <<live, state, json_definition, attempts, budget, result, pollReads,
                   satisfiedAt, external, prev, d1, d2, verdict>>

\* update_app: _fail_if_not_running, then the comparison with the first read
update_app_compare ==
    /\ pc = "update_app_compare"
    /\ Read
    /\ UNCHANGED calls
    /\ IF ~get_app_info.exists
       THEN Fatal("fail_json") /\ UNCHANGED <<d1, d2, verdict>>
       ELSE /\ d1' = app_info.doc
            /\ d2' = json_definition
            /\ IF compare_json_deployments(app_info.doc, json_definition)
               THEN verdict' = "equivalent" /\ exit_json(FALSE, FALSE)
               ELSE verdict' = "different" /\ pc' = "update_app_call" /\ UNCHANGED result
    /\ UNCHANGED <<live, state, json_definition, app_info, attempts, budget, pollReads,
                   satisfiedAt, firstRead, external, prev>>

\* update_app_call, were the accepted update reported as no change
update_app_call_unchanged ==
    /\ pc = "update_app_call"
    /\ calls' = [calls EXCEPT !.update_app = @ + 1]
    /\ \/ /\ live' = [live EXCEPT !.exists = TRUE, !.doc = Inject(json_definition),
                                   !.deleting = FALSE]
          /\ exit_json(FALSE, FALSE)
          /\ lastCall' = "update_ok"
       \/ /\ Fatal("fail_json")
          /\ lastCall' = "update_rejected"
          /\ UNCHANGED live
    /\ UNCHANGED <<state, json_definition, app_info, attempts, budget, pollReads,
                   satisfiedAt, firstRead, external, prev, d1, d2, verdict>>

\* update_app: client.update_app, accepted or rejected by the scheduler
\* (the scheduler's PUT also accepts a document for an application that is gone)
\* update_app, were a rejected update to fall through to exit_json(changed=True)
update_app_call_unstopped ==
    /\ pc = "update_app_call"
    /\ calls' = [calls EXCEPT !.update_app = @ + 1]
    /\ \/ /\ live' = [live EXCEPT !.exists = TRUE, !.doc = Inject(json_definition),
                                   !.deleting = FALSE]
          /\ exit_json(TRUE, FALSE)
          /\ lastCall' = "update_ok"
       \/ /\ exit_json(TRUE, FALSE)
          /\ lastCall' = "update_rejected"
          /\ UNCHANGED live
    /\ UNCHANGED <<state, json_definition, app_info, attempts, budget, pollReads,
                   satisfiedAt, firstRead, external, prev, d1, d2, verdict>>

update_app_call ==
    /\ pc = "update_app_call"
    /\ calls' = [calls EXCEPT !.update_app = @ + 1]
    /\ \/ /\ live' = [live EXCEPT !.exists = TRUE, !.doc = Inject(json_definition),
                                   !.deleting = FALSE]
          /\ exit_json(TRUE, FALSE)
          /\ lastCall' = "update_ok"
       \/ /\ Fatal("fail_json")
          /\ lastCall' = "update_rejected"
          /\ UNCHANGED live
    /\ UNCHANGED <<state, json_definition, app_info, attempts, budget, pollReads,
                   satisfiedAt, firstRead, external, prev, d1, d2, verdict>>

\* diff_app, were it to report no change
diff_unchanged == FALSE

\* the changed value diff_app reports
diff_changed == TRUE

\* diff_app, were the submitted document deployed when nothing is running
diff_app_deploying ==
    /\ pc = "diff_app"
    /\ FirstRead
    /\ app_info' = get_app_info
    /\ IF get_app_info.exists
       THEN Read /\ UNCHANGED <<live, calls>>
       ELSE /\ live' = Created(json_definition)
            /\ calls' = [calls EXCEPT !.create_app = @ + 1]
            /\ lastCall' = "create_ok"
    /\ exit_json(diff_changed, TRUE)
    /\ UNCHANGED <<state, json_definition, attempts, budget, pollReads,
                   satisfiedAt, external, prev, d1, d2, verdict>>

diff_app ==
    /\ pc = "diff_app"
    /\ FirstRead
    /\ Read
    /\ UNCHANGED calls
    /\ app_info' = get_app_info
    /\ exit_json(diff_changed, TRUE)
    /\ UNCHANGED <<live, state, json_definition, attempts, budget, pollReads,
                   satisfiedAt, external, prev, d1, d2, verdict>>

\* get_app, were a missing application reported as an empty result
get_app_lenient ==
    /\ pc = "get_app"
    /\ FirstRead
    /\ Read
    /\ UNCHANGED calls
    /\ app_info' = get_app_info
    /\ exit_json(FALSE, FALSE)
    /\ UNCHANGED <<live, state, json_definition, attempts, budget, pollReads,
                   satisfiedAt, external, prev, d1, d2, verdict>>

get_app ==
    /\ pc = "get_app"
    /\ FirstRead
    /\ Read
    /\ UNCHANGED calls
    /\ app_info' = get_app_info
    /\ IF ~get_app_info.exists THEN Fatal("fail_json") ELSE exit_json(FALSE, FALSE)
    /\ UNCHANGED <<live, state, json_definition, attempts, budget, pollReads,
                   satisfiedAt, external, prev, d1, d2, verdict>>

-----------------------------------------------------------------------------
(* The scheduler's own steps, and changes made by others *)

SchedulerVars == <<state, json_definition, pc, app_info, attempts, budget, result, calls,
                   pollReads, satisfiedAt, firstRead, prev, d1, d2, verdict, lastCall>>

\* a task of the application starts running
Deploy ==
    /\ live.exists /\ ~live.deleting /\ live.tasks_running = 0
    /\ live' = [live EXCEPT !.tasks_running = 1]
    /\ UNCHANGED <<SchedulerVars, external>>

\* a deleted application is gone
Remove ==
    /\ live.exists /\ live.deleting
    /\ live' = Absent
    /\ UNCHANGED <<SchedulerVars, external>>

\* somebody else changes the application, during an invocation or between two
Interleaved == external < MaxExternal

ExternalCreate(spec) ==
    /\ ~live.exists
    /\ live' = Created(spec)
    /\ Interleaved
    /\ external' = external + 1
    /\ UNCHANGED SchedulerVars

ExternalDelete ==
    /\ live.exists
    /\ live' = Absent
    /\ Interleaved
    /\ external' = external + 1
    /\ UNCHANGED SchedulerVars

ExternalUpdate(spec) ==
    /\ live.exists /\ ~live.deleting
    /\ live.doc # Inject(spec)
    /\ live' = [live EXCEPT !.doc = Inject(spec)]
    /\ Interleaved
    /\ external' = external + 1
    /\ UNCHANGED SchedulerVars

-----------------------------------------------------------------------------
(* Specifications *)

\* nothing has been invoked yet
NotInvoked ==
    /\ live = Absent
    /\ state = "none"
    /\ json_definition = NoneV
    /\ pc = "idle"
    /\ app_info = Absent
    /\ attempts = 0
    /\ budget = 0
    /\ result = NoResult
    /\ calls = NoCalls
    /\ pollReads = 0
    /\ satisfiedAt = 0
    /\ firstRead = "none"
    /\ external = 0
    /\ prev = "none"
    /\ lastCall = "none"

Init ==
    /\ NotInvoked
    /\ d1 = NoneV /\ d2 = NoneV /\ verdict = "none"

Next ==
    \/ \E goal \in States, spec \in SpecDocs : main(goal, spec)
    \/ create_if_not_exists
    \/ create_app
    \/ create_app_call
    \/ sync_deployed
    \/ create_app_return
    \/ destroy_app
    \/ destroy_app_call
    \/ sync_not_present
    \/ update_app
    \/ update_app_compare
    \/ update_app_call
    \/ diff_app
    \/ get_app
    \/ Deploy
    \/ Remove
    \/ \E spec \in SpecDocs : ExternalCreate(spec)
    \/ ExternalDelete
    \/ \E spec \in SpecDocs : ExternalUpdate(spec)

Spec == Init /\ [][Next]_vars

\* the steps of the invoked handler; each remote call returns, so a handler that can
\* take a step takes it
Handler ==
    \/ create_if_not_exists
    \/ create_app
    \/ create_app_call
    \/ sync_deployed
    \/ create_app_return
    \/ destroy_app
    \/ destroy_app_call
    \/ sync_not_present
    \/ update_app
    \/ update_app_compare
    \/ update_app_call
    \/ diff_app
    \/ get_app

FairSpec == Spec /\ WF_vars(Handler)

\* _compare_json_deployments called on its own, on any two documents
Compare ==
    /\ pc = "idle" /\ state = "none" /\ verdict = "none"
    /\ d1 # NoneV /\ d2 # NoneV
    /\ verdict' = IF compare_json_deployments(d1, d2) THEN "equivalent" ELSE "different"
    /\ UNCHANGED <<live, state, json_definition, pc, app_info, attempts, budget, result,
                   calls, pollReads, satisfiedAt, firstRead, external, prev, d1, d2,
                   lastCall>>

CompareInit ==
    /\ NotInvoked
    /\ d1 \in Docs /\ d2 \in Docs /\ verdict = "none"

CompareNext == Compare

CompareSpec == CompareInit /\ [][CompareNext]_vars

-----------------------------------------------------------------------------
(* Properties *)

Returned == pc = "idle" /\ result.kind = "exit_json"
Ended == pc = "idle" /\ result.kind # "none"

OnlyCreate == [create_app |-> 1, update_app |-> 0, delete_app |-> 0]
OnlyUpdate == [create_app |-> 0, update_app |-> 1, delete_app |-> 0]
OnlyDelete == [create_app |-> 0, update_app |-> 0, delete_app |-> 1]

\* a read of the poll loop met the awaited condition before the attempts ran out
WithinBudget == satisfiedAt >= 1 /\ satisfiedAt <= budget

\* C1: present on an absent application that the scheduler deploys within the poll
\* budget, nobody else changing it, issues exactly one create, polls, and returns
\* changed=true; present repeated with the same document then issues no write and
\* returns changed=false.
PresentIdempotent ==
    /\ (Ended /\ state = "present" /\ firstRead = "absent" /\ external = 0 /\ WithinBudget)
         => /\ result = [kind |-> "exit_json", changed |-> TRUE, diff |-> FALSE]
            /\ calls = OnlyCreate
            /\ pollReads >= 1
    /\ (state = "present" /\ prev = "absent" /\ external = 0)
         => /\ Writes = 0
            /\ Ended => result = [kind |-> "exit_json", changed |-> FALSE, diff |-> FALSE]

\* the second present of C1 has returned
PresentTwice ==
    /\ Returned /\ state = "present" /\ prev = "absent" /\ external = 0
    /\ ~result.changed /\ live.exists

\* C2: absent, the scheduler removing a deleted application within the poll budget and
\* nobody else changing it, returns changed=true iff the application existed (one
\* delete) and changed=false if it was absent; absent repeated then issues no delete
\* and returns changed=false.
AbsentIdempotent ==
    /\ (Ended /\ state = "absent" /\ external = 0
          /\ (firstRead = "live" => WithinBudget))
         => /\ result.kind = "exit_json"
            /\ result.changed <=> firstRead = "live"
            /\ calls = IF firstRead = "live" THEN OnlyDelete ELSE NoCalls
    /\ (state = "absent" /\ prev # "none" /\ external = 0)
         => /\ Writes = 0
            /\ Ended => result = [kind |-> "exit_json", changed |-> FALSE, diff |-> FALSE]

\* the second absent of C2 has returned, the first having deleted the application
AbsentTwice ==
    /\ Returned /\ state = "absent" /\ prev = "live" /\ external = 0
    /\ ~result.changed /\ ~live.exists

\* C3: when the read of present returns an application, the invocation issues no
\* create, update or delete and returns changed=false, whatever the submitted document.
PresentNeverModifies ==
    (state = "present" /\ firstRead = "live")
      => /\ Writes = 0
         /\ pc = "idle"
         /\ result = [kind |-> "exit_json", changed |-> FALSE, diff |-> FALSE]

\* present has found an application that differs from the submitted document
PresentOnDifferent ==
    /\ Returned /\ state = "present" /\ firstRead = "live"
    /\ ~compare_json_deployments(app_info.doc, json_definition)
    /\ Get(app_info.doc, "instances") # Get(json_definition, "instances")

\* C4: an updated invocation that returns has changed=true iff it issued an update or a
\* create; on an absent application it creates and polls; on an application judged
\* equivalent it writes nothing; on one judged different it issues exactly one update.
UpdatedChangedIffWrite ==
    (Returned /\ state = "updated")
      => /\ result.changed <=> (calls.update_app + calls.create_app > 0)
         /\ firstRead = "absent"
              => result.changed /\ calls = OnlyCreate /\ pollReads >= 1
         /\ firstRead = "live"
              => /\ verdict # "none"
                 /\ d1 = app_info.doc /\ d2 = json_definition
                 /\ verdict = "equivalent" => ~result.changed /\ calls = NoCalls
                 /\ verdict = "different" => result.changed /\ calls = OnlyUpdate

\* updated has found instances 1 where 2 are asked for, and has updated
UpdatedInstances ==
    /\ Returned /\ state = "updated" /\ firstRead = "live"
    /\ Get(d1, "instances") = IntV(1) /\ Get(d2, "instances") = IntV(2)
    /\ verdict = "different" /\ calls = OnlyUpdate /\ result.changed

\* container.docker.portMappings of a document, <<>> if there is none
Mappings(d) ==
    IF /\ HasKey(d, "container")
       /\ HasKey(Item(d, "container"), "docker")
       /\ HasKey(Item(Item(d, "container"), "docker"), "portMappings")
    THEN Item(Item(Item(d, "container"), "docker"), "portMappings")[2]
    ELSE <<>>

\* the document without any servicePort in its port mappings
WithoutServicePort(d) ==
    IF Len(Mappings(d)) = 0 THEN d
    ELSE Put(d, "container",
             Put(Item(d, "container"), "docker",
                 Put(Item(Item(d, "container"), "docker"), "portMappings",
                     ListV([i \in 1..Len(Mappings(d)) |->
                               Del(Mappings(d)[i], "servicePort")]))))

\* the two documents differ in the masked field and in nothing else
DifferOnlyInServicePort(a, b) ==
    a # b /\ WithoutServicePort(a) = WithoutServicePort(b)

\* C5: two documents that differ only in servicePort entries of
\* container.docker.portMappings, whatever the values and on whichever side, are
\* judged equivalent.
MaskSymmetry ==
    (verdict # "none" /\ DifferOnlyInServicePort(d1, d2)) => verdict = "equivalent"

RECURSIVE SameUpToOrder(_, _)
\* equal but for the order of the keys of mappings and of the elements of lists
SameUpToOrder(a, b) ==
    /\ a[1] = b[1]
    /\ CASE a[1] = "dict" ->
              /\ Len(a[2]) = Len(b[2])
              /\ \A i \in 1..Len(a[2]) :
                    /\ HasKey(b, a[2][i][1])
                    /\ SameUpToOrder(a[2][i][2], Item(b, a[2][i][1]))
         [] a[1] = "list" ->
              /\ Len(a[2]) = Len(b[2])
              /\ \E f \in Permutations(1..Len(a[2])) :
                    \A i \in 1..Len(a[2]) : SameUpToOrder(a[2][i], b[2][f[i]])
         [] OTHER -> a = b

\* C6: two documents that differ only in the order of keys of mappings or of elements
\* of lists, at any depth, are judged equivalent.
OrderInsensitive ==
    (verdict # "none" /\ SameUpToOrder(d1, d2)) => verdict = "equivalent"

\* two documents with the same two port mappings in opposite orders were compared
ReorderedMappings ==
    /\ verdict = "equivalent" /\ SameUpToOrder(d1, d2)
    /\ Len(Mappings(d1)) = 2
    /\ Mappings(d1)[1] # Mappings(d1)[2]
    /\ Mappings(d2) = <<Mappings(d1)[2], Mappings(d1)[1]>>

\* the attribute is in both documents, with different values once the mask is applied
\* and the order normalised
Diverges(a, b, item) ==
    /\ HasKey(a, item) /\ HasKey(b, item)
    /\ PyCmp(ordered(Item(clean_json_objects_for_update(a), item)),
             ordered(Item(clean_json_objects_for_update(b), item))) # 0

\* C7: when an update-relevant attribute is in both documents with different
\* canonical values, the documents are judged different, also when one of the values
\* is zero or empty.
DivergentMeansDifferent ==
    (verdict # "none" /\ \E item \in UPDATE_OK_ATTRIBUTES : Diverges(d1, d2, item))
      => verdict = "different"

\* C8: a test invocation issues no create, update or delete, and its step leaves the
\* live application as it was, whether there is one or not.
DiffSideEffectFree ==
    /\ [](state = "test" => Writes = 0)
    /\ [][(pc = "diff_app" /\ pc' # "diff_app") => live' = live]_vars

\* test was invoked twice on a running application
DiffTwice ==
    /\ Returned /\ state = "test" /\ prev = "live" /\ firstRead = "live" /\ live.exists

\* C9: the changed value of a test result differs from the changed=true the other
\* goals return after a write.
DiffChangedDistinct ==
    (Returned /\ state = "test") => result.changed # TRUE

\* C9 as the code has it: a test result always has changed=true, the value a write is
\* reported with, though no write was issued; what sets it apart is the diff it
\* carries, which no other result has.
DiffChangedWithDiff ==
    Returned
      => /\ state = "test" => result.changed /\ result.diff /\ Writes = 0
         /\ state # "test" => ~result.diff
         /\ (state # "test" /\ result.changed) => Writes = 1

\* test has returned on an absent application
DiffReturned ==
    Returned /\ state = "test" /\ result.changed /\ result.diff /\ firstRead = "absent"

\* C10: when no read meets the awaited condition, _sync_app_status(attempts=N) makes
\* exactly N reads and then raises the timeout.
TimeoutAfterNReads ==
    (Ended /\ result.kind = "timeout" /\ satisfiedAt = 0) => pollReads = budget

\* C11: _sync_app_status raises the timeout only when no read of its loop met the
\* awaited condition; a read that meets it, the last one included, ends the wait in
\* success.
TimeoutOnlyIfNeverMet ==
    (Ended /\ result.kind = "timeout") => satisfiedAt = 0

\* C12: an invocation that issued a create or a delete returns an Outcome only after a
\* read of the poll loop, made after the write, has seen the awaited condition (a
\* running task, or no application).
OutcomeAfterObservation ==
    (Returned /\ calls.create_app + calls.delete_app > 0)
      => /\ result.changed
         /\ satisfiedAt >= 1
         /\ satisfiedAt = pollReads

\* a create has returned after a poll that first saw no running task
CreatedAfterWaiting ==
    /\ Returned /\ calls.create_app = 1 /\ result.changed
    /\ pollReads >= 2 /\ satisfiedAt = pollReads

\* C13: get issues no create, update or delete; it ends in fail_json exactly when the
\* read returns no application, and otherwise returns with changed=false.
GetReadOnly ==
    state = "get"
      => /\ Writes = 0
         /\ Ended => /\ result.kind = "fail_json" <=> firstRead = "absent"
                     /\ firstRead = "live"
                          => result = [kind |-> "exit_json", changed |-> FALSE,
                                       diff |-> FALSE]

\* get has failed on an absent application
GetFailed ==
    Ended /\ state = "get" /\ firstRead = "absent" /\ result.kind = "fail_json"

\* C14: when no update-relevant attribute is in both documents with different
\* canonical values, the documents are judged equivalent, whichever attributes only
\* one of them has and whatever their other top-level fields hold.
OneSidedNeverDiffers ==
    (verdict # "none" /\ \A item \in UPDATE_OK_ATTRIBUTES : ~Diverges(d1, d2, item))
      => verdict = "equivalent"

\* documents were compared of which one has instances the other lacks, and whose ids
\* differ
OneSidedCompared ==
    /\ verdict = "equivalent"
    /\ HasKey(d1, "instances") /\ ~HasKey(d2, "instances")
    /\ Item(d1, "id") # Item(d2, "id")

\* C15: every write follows a read of the same invocation and agrees with the latest
\* one: create is called only when the latest remote call was a read that found no
\* application, update and delete only when it was a read that found one.
ReadBeforeWrite ==
    [][/\ calls'.create_app > calls.create_app => lastCall = "read_absent"
       /\ calls'.update_app > calls.update_app => lastCall = "read_live"
       /\ calls'.delete_app > calls.delete_app => lastCall = "read_live"]_vars

\* a create was issued after reads that found no application, and was rejected
\* because the application had been created in between
CreateAfterExternalCreate ==
    /\ lastCall = "create_rejected" /\ firstRead = "absent"
    /\ calls.create_app = 1 /\ external = 1 /\ live.exists

\* C16: one invocation issues at most one create, update or delete, also when the
\* write is rejected or the wait after it times out.
AtMostOneWrite == Writes <= 1

\* an invocation has ended in the timeout after its one write
TimedOutAfterWrite ==
    Ended /\ Writes = 1 /\ result.kind = "timeout"

\* C17: a wait of _sync_app_status in which no read met the condition ends in the
\* timeout and in no other failure, also when the application disappears while
\* APP_DEPLOYED is awaited.
SyncEndsInTimeout ==
    (Ended /\ pollReads > 0 /\ satisfiedAt = 0) => result.kind = "timeout"

\* C18: once the scheduler has rejected a create or an update, the invocation has
\* ended in fail_json, has made no remote call since, and reports no change.
RejectionIsFatal ==
    lastCall \in {"create_rejected", "update_rejected"}
      => /\ pc = "idle"
         /\ result.kind = "fail_json"
         /\ ~result.changed

\* an update has been rejected
UpdateRejected ==
    lastCall = "update_rejected" /\ calls.update_app = 1 /\ Ended

\* C19: every invocation ends, in exit_json or in a failure, whatever the scheduler
\* does, and _sync_app_status never makes more reads than its attempts plus one.
Terminates ==
    /\ [](pollReads <= budget + 1)
    /\ (pc # "idle") ~> Ended

\* a wait has used every read its attempts allow on an application that never
\* started a task
BudgetExhausted ==
    /\ Ended /\ result.kind = "timeout"
    /\ budget = MaxAttempts /\ pollReads = budget + 1 /\ satisfiedAt = 0

\* C20: updated repeated with the same document, after an updated that returned, with
\* nobody else changing the application and the application there from the first read
\* on (no earlier delete taking effect), issues no write and returns changed=false.
UpdatedIdempotent ==
    (/\ state = "updated" /\ prev # "none" /\ external = 0
     /\ firstRead = "live" /\ live.exists)
      => /\ Writes = 0
         /\ Ended => result = [kind |-> "exit_json", changed |-> FALSE, diff |-> FALSE]

====
